---- MODULE Spec2Model ----
(***************************************************************************)
(* The three command-line agents of scripts/agents (go_architect.py,       *)
(* go_engineer_reviewer.py, go_tester.py): one invocation of an agent as a *)
(* state machine.  import guard -> main (credential check) -> gather and   *)
(* assemble the context -> one request to the generation service -> output *)
(* routing.                                                                *)
(*                                                                         *)
(* Text is a sequence of segments (strings); a path or a literal is one    *)
(* segment.  TLC cannot look inside a string, so every string the code     *)
(* inspects character by character (endswith, in, startswith, lower,       *)
(* sorted) has its characters listed in Chars.                             *)
(***************************************************************************)
EXTENDS Integers, Sequences, FiniteSets

\* ------------------------------------------------------------------ bounds

\* Longest explicit --files list tried.
MaxArgs == 2
\* Most entries in the working directory tried.
MaxFiles == 2

\* Entries a caller passes with --files.
ArgPool == {"a.go", "a_test.go", "a.go.bak"}
\* Entries that may exist below the working directory.
FsPool == {"a.go", "b.go", "B.go", "a_test.go", "openapi.yaml", "Swagger.json"}
\* Names git may report as changed (gone.go was deleted from the work tree).
ChangedPool == {"a.go", "a_test.go", "gone.go"}

\* ------------------------------------------------------------- characters

Chars(s) ==
  CASE s = "a.go" -> <<"a", ".", "g", "o">>
    [] s = "b.go" -> <<"b", ".", "g", "o">>
    [] s = "B.go" -> <<"B", ".", "g", "o">>
    [] s = "gone.go" -> <<"g", "o", "n", "e", ".", "g", "o">>
    [] s = "a_test.go" -> <<"a", "_", "t", "e", "s", "t", ".", "g", "o">>
    [] s = "a.go.bak" -> <<"a", ".", "g", "o", ".", "b", "a", "k">>
    [] s = "openapi.yaml" ->
         <<"o", "p", "e", "n", "a", "p", "i", ".", "y", "a", "m", "l">>
    [] s = "Swagger.json" ->
         <<"S", "w", "a", "g", "g", "e", "r", ".", "j", "s", "o", "n">>
    [] s = ".go" -> <<".", "g", "o">>
    [] s = "_test.go" -> <<"_", "t", "e", "s", "t", ".", "g", "o">>
    [] s = ".yaml" -> <<".", "y", "a", "m", "l">>
    [] s = ".yml" -> <<".", "y", "m", "l">>
    [] s = ".json" -> <<".", "j", "s", "o", "n">>
    [] s = "yaml" -> <<"y", "a", "m", "l">>
    [] s = "json" -> <<"j", "s", "o", "n">>
    [] s = "openapi" -> <<"o", "p", "e", "n", "a", "p", "i">>
    [] s = "swagger" -> <<"s", "w", "a", "g", "g", "e", "r">>
    [] s = "Error" -> <<"E", "r", "r", "o", "r">>
    [] s = "Error getting git diff: " ->
         <<"E", "r", "r", "o", "r", " ", "g", "e", "t", "t", "i", "n", "g",
           " ", "g", "i", "t", " ", "d", "i", "f", "f", ":", " ">>
    [] s = "diff --git a/a.go b/a.go" ->
         <<"d", "i", "f", "f", " ", "-", "-", "g", "i", "t", " ", "a", "/",
           "a", ".", "g", "o", " ", "b", "/", "a", ".", "g", "o">>
    [] s = "fatal: bad revision 'main'" ->
         <<"f", "a", "t", "a", "l", ":", " ", "b", "a", "d", " ", "r", "e",
           "v", "i", "s", "i", "o", "n", " ", "'", "m", "a", "i", "n", "'">>
    [] s = "" -> <<>>
    [] s = "yml" -> <<"y", "m", "l">>

\* Python's ord() on the characters above.
Ord(c) ==
  CASE c = " " -> 32 [] c = "'" -> 39 [] c = "-" -> 45 [] c = "." -> 46
    [] c = "/" -> 47 [] c = ":" -> 58
    [] c = "B" -> 66 [] c = "E" -> 69 [] c = "S" -> 83 [] c = "_" -> 95
    [] c = "a" -> 97 [] c = "b" -> 98 [] c = "d" -> 100 [] c = "e" -> 101
    [] c = "f" -> 102 [] c = "g" -> 103 [] c = "i" -> 105 [] c = "j" -> 106
    [] c = "k" -> 107 [] c = "l" -> 108 [] c = "m" -> 109 [] c = "n" -> 110
    [] c = "o" -> 111 [] c = "p" -> 112 [] c = "r" -> 114 [] c = "s" -> 115
    [] c = "t" -> 116 [] c = "v" -> 118 [] c = "w" -> 119 [] c = "y" -> 121

\* str.lower() on one character.
LowerChar(c) ==
  CASE c = "B" -> "b" [] c = "E" -> "e" [] c = "S" -> "s" [] OTHER -> c

\* str.lower()
Lower(cs) == [i \in 1..Len(cs) |-> LowerChar(cs[i])]

\* str.endswith
EndsWith(cs, suf) ==
  /\ Len(suf) <= Len(cs)
  /\ SubSeq(cs, Len(cs) - Len(suf) + 1, Len(cs)) = suf

\* str.startswith
StartsWith(cs, pre) ==
  /\ Len(pre) <= Len(cs)
  /\ SubSeq(cs, 1, Len(pre)) = pre

\* sub in cs
Contains(cs, sub) ==
  \E i \in 1..(Len(cs) + 1) :
    /\ i + Len(sub) - 1 <= Len(cs)
    /\ SubSeq(cs, i, i + Len(sub) - 1) = sub

\* str < str: the first differing code point decides, a proper prefix is less.
LexLess(cs, ds) ==
  \/ \E i \in 1..Len(cs) :
       /\ i <= Len(ds)
       /\ SubSeq(cs, 1, i - 1) = SubSeq(ds, 1, i - 1)
       /\ Ord(cs[i]) < Ord(ds[i])
  \/ /\ Len(cs) < Len(ds)
     /\ SubSeq(ds, 1, Len(cs)) = cs

\* The characters of a text (a sequence of segments).
RECURSIVE TextChars(_)
TextChars(segs) ==
  IF segs = <<>> THEN <<>> ELSE Chars(Head(segs)) \o TextChars(Tail(segs))

\* ------------------------------------------------------------- sequences

SeqsUpTo(S, n) == UNION {[1..k -> S] : k \in 0..n}

Range(s) == {s[i] : i \in 1..Len(s)}

\* Every order in which a directory walk may yield the entries of S.
Perms(S) == {s \in [1..Cardinality(S) -> S] : Range(s) = S}

RECURSIVE InsertSorted(_, _)
InsertSorted(x, s) ==
  IF s = <<>> THEN <<x>>
  ELSE IF LexLess(Chars(x), Chars(Head(s))) THEN <<x>> \o s
       ELSE <<Head(s)>> \o InsertSorted(x, Tail(s))

RECURSIVE SortedFrom(_, _)
SortedFrom(s, n) ==
  IF n = 0 THEN <<>> ELSE InsertSorted(s[n], SortedFrom(s, n - 1))

\* A mutant of sorted: the list is returned in the order the walk gave it.
sorted_unsorted(s) == s

\* sorted(list of str)
sorted(s) == SortedFrom(s, Len(s))

\* The strings whose characters Chars lists and that a character-level result
\* may have to be turned back into.
Known == ArgPool \cup FsPool \cup ChangedPool \cup {"", "yaml", "yml", "json"}

\* The string with the characters cs.
Str(cs) == CHOOSE s \in Known : Chars(s) = cs

\* str.strip(): leading and trailing blanks removed.
RECURSIVE LStrip(_)
LStrip(cs) ==
  IF cs # <<>> /\ Head(cs) = " " THEN LStrip(Tail(cs)) ELSE cs

RECURSIVE RStrip(_)
RStrip(cs) ==
  IF cs # <<>> /\ cs[Len(cs)] = " " THEN RStrip(SubSeq(cs, 1, Len(cs) - 1))
  ELSE cs

Strip(cs) == RStrip(LStrip(cs))

\* Path(p).suffix: from the last "." of the name on ("" when there is none).
Suffix(cs) ==
  IF \E i \in 1..Len(cs) : cs[i] = "."
  THEN LET last == CHOOSE i \in 1..Len(cs) :
                     /\ cs[i] = "."
                     /\ \A j \in (i + 1)..Len(cs) : cs[j] # "."
       IN SubSeq(cs, last, Len(cs))
  ELSE <<>>

\* ------------------------------------------------------------ file system

\* The three backquotes that open and close a fenced block (a string of the
\* module cannot hold a backquote).
Fence == "<3 backquotes>"

\* What open(p).read() returns for a readable entry.
Content(p) ==
  CASE p = "a.go" -> "package a"
    [] p = "b.go" -> "package b"
    [] p = "B.go" -> "package B"
    [] p = "a_test.go" -> "package a // tests"
    [] p = "a.go.bak" -> "package a // backup"
    [] p = "openapi.yaml" -> "openapi: 3.0.0"
    [] p = "Swagger.json" -> "{swagger: 2.0}"
    [] OTHER -> "package main"

\* str(e) of the OSError open() raises: the entry is missing, or it is there
\* and cannot be read.
ErrorText(p, disk) ==
  IF p \in disk THEN <<"[Errno 13] Permission denied: '", p, "'">>
  ELSE <<"[Errno 2] No such file or directory: '", p, "'">>

\* Whether open(p).read() raises: the entry is missing or unreadable.
Raises(p, disk, bad) == p \notin disk \/ p \in bad

\* A mutant of read_file: the first read error is not caught per file, the
\* block is lost.
read_file_drops(filepath, disk, bad) ==
  IF Raises(filepath, disk, bad) THEN <<>>
  ELSE <<"### File: ", filepath, "\n", Fence, "go\n", Content(filepath), "\n", Fence, "\n">>

\* read_file(filepath), the same in the three agents.
read_file(filepath, disk, bad) ==
  IF Raises(filepath, disk, bad)
  THEN <<"### File: ", filepath, "\nError reading file: ">>
       \o ErrorText(filepath, disk) \o <<"\n">>
  ELSE <<"### File: ", filepath, "\n", Fence, "go\n", Content(filepath), "\n", Fence, "\n">>

\* for filepath in paths: code_context += read_file(filepath)
RECURSIVE ReadAll(_, _, _)
ReadAll(paths, disk, bad) ==
  IF paths = <<>> THEN <<>>
  ELSE read_file(Head(paths), disk, bad) \o ReadAll(Tail(paths), disk, bad)

\* Path(".").rglob("*" + suffix): the entries whose name ends with suffix.
RGlob(disk, suffix) == {p \in disk : EndsWith(Chars(p), Chars(suffix))}

IsGo(f) == EndsWith(Chars(f), Chars(".go"))

IsTestMarked(f) == Contains(Chars(f), Chars("_test.go"))

\* ---------------------------------------------------------- go_architect.py

\* find_go_files() of go_architect.py; walk is the order rglob yields.
find_go_files_architect(walk) ==
  sorted(SelectSeq(walk, LAMBDA p : ~IsTestMarked(p)))

\* [f for f in files if f.endswith(".go")] of go_architect.run_review
explicit_architect(fileList) == SelectSeq(fileList, IsGo)

IsApiSpec(p) ==
  \/ Contains(Lower(Chars(p)), Chars("openapi"))
  \/ Contains(Lower(Chars(p)), Chars("swagger"))

\* find_api_specs(); the walks are the orders the three rglob calls yield.
find_api_specs(walkYaml, walkYml, walkJson, disk) ==
  LET specs == SelectSeq(walkYaml, IsApiSpec) \o SelectSeq(walkYml, IsApiSpec)
               \o SelectSeq(walkJson, IsApiSpec)
  IN IF "openapi.yaml" \in disk /\ "openapi.yaml" \notin Range(specs)
     THEN Append(specs, "openapi.yaml")
     ELSE specs

\* One spec file's block of go_architect.run_review.
read_spec(spec, disk, bad) ==
  IF Raises(spec, disk, bad)
  THEN <<"### File: ", spec, "\nError reading file: ">>
       \o ErrorText(spec, disk) \o <<"\n">>
  ELSE <<"### File: ", spec, "\n", Fence,
         Str(SubSeq(Suffix(Chars(spec)), 2, Len(Suffix(Chars(spec))))),
         "\n", Content(spec), "\n", Fence, "\n">>

RECURSIVE ReadSpecs(_, _, _)
ReadSpecs(specs, disk, bad) ==
  IF specs = <<>> THEN <<>>
  ELSE read_spec(Head(specs), disk, bad) \o ReadSpecs(Tail(specs), disk, bad)

\* ------------------------------------------------- go_engineer_reviewer.py

\* find_go_files() of go_engineer_reviewer.py: test files are kept.
find_go_files_reviewer(walk) == sorted(walk)

\* [f for f in files if f.endswith(".go")] of go_engineer_reviewer.run_review
explicit_reviewer(fileList) == SelectSeq(fileList, IsGo)

\* What a git subprocess may end with.
GitDiffOutcomes ==
  { [rc |-> 0, stdout |-> "", stderr |-> ""],
    [rc |-> 0, stdout |-> "diff --git a/a.go b/a.go", stderr |-> ""],
    [rc |-> 128, stdout |-> "", stderr |-> "fatal: bad revision 'main'"],
    [rc |-> 1, stdout |-> "", stderr |-> ""] }

\* get_git_diff(base): check=True raises CalledProcessError on rc # 0.
get_git_diff(o) ==
  IF o.rc = 0 THEN <<o.stdout>>
  ELSE <<"Error getting git diff: ", o.stderr>>

\* if not diff or diff.startswith("Error")
DiffUnusable(diff) ==
  \/ TextChars(diff) = <<>>
  \/ StartsWith(TextChars(diff), Chars("Error"))

\* stdout.strip().split("\n") of git diff --name-only: the names of at most
\* MaxFiles changed files, or the one empty line of an empty output.
NameOnlyLines ==
  {<<"">>} \cup
  UNION {Perms(S) : S \in {T \in SUBSET ChangedPool :
                             T # {} /\ Cardinality(T) <= MaxFiles}}

NameOnlyOutcomes ==
  {[rc |-> 0, lines |-> l] : l \in NameOnlyLines}
  \cup {[rc |-> 128, lines |-> <<"">>]}

\* get_changed_files(base)
get_changed_files(o) ==
  IF o.rc = 0
  THEN LET stripped == [i \in 1..Len(o.lines) |-> Str(Strip(Chars(o.lines[i])))]
       IN SelectSeq(stripped, LAMBDA f : f # "")
  ELSE <<>>

\* ------------------------------------------------------------- go_tester.py

\* find_go_files() of go_tester.py
find_go_files_tester(walk) ==
  sorted(SelectSeq(walk, LAMBDA p : ~IsTestMarked(p)))

\* find_test_files() of go_tester.py
find_test_files(walk) == sorted(walk)

\* A mutant of the tester's explicit filter: test files are kept.
explicit_tester_keeps_tests(fileList) == SelectSeq(fileList, IsGo)

\* [f for f in files if f.endswith(".go") and "_test.go" not in f]
explicit_tester(fileList) ==
  SelectSeq(fileList, LAMBDA f : IsGo(f) /\ ~IsTestMarked(f))

\* ------------------------------------------------------------------ state

Agents == {"architect", "reviewer", "tester"}

VARIABLES
  agent,               \* which of the three scripts runs
  args,                \* argparse's namespace: files, output, diff, base
  anthropicInstalled,  \* whether `import anthropic` succeeds
  environ,             \* os.environ's ANTHROPIC_API_KEY: set or not, its value
  fs,                  \* the entries below the working directory
  outFile,             \* the file at args.output: whether it exists, its text
  outBefore,           \* outFile as it was when the process started
  pc,                  \* where the process is
  go_files,            \* the files selected by run_review / run_test_generation
  aux_files,           \* the second pass: API specs, existing tests, changed files
  code_context,        \* the context assembled so far
  readErrors,          \* the paths whose open() raised
  gitDiff,             \* how the `git diff` subprocess ended (rc -1: not run)
  request,             \* the user content sent to the service
  result,              \* what run_review / run_test_generation returned
  stdout,              \* what was printed to standard output
  stderr,              \* what was printed to standard error
  exitCode,            \* the process's exit code (-1: still running)
  apiCalls,            \* how many times client.messages.create was called
  events               \* the I/O the process did, in order

vars == <<agent, args, anthropicInstalled, environ, fs, outFile, outBefore, pc,
          go_files, aux_files, code_context, readErrors, gitDiff, request,
          result, stdout, stderr, exitCode, apiCalls, events>>

\* --files: absent (None), or a list of at most MaxArgs entries (nargs="*").
FileArgs ==
  {[given |-> FALSE, list |-> <<>>]}
  \cup {[given |-> TRUE, list |-> l] : l \in SeqsUpTo(ArgPool, MaxArgs)}

\* --output: absent (None), the empty string, or a path.
OutputArgs ==
  { [given |-> FALSE, path |-> ""],
    [given |-> TRUE, path |-> ""],
    [given |-> TRUE, path |-> "review.md"] }

\* Only go_engineer_reviewer.py has --diff and --base (default "main").
ArgsOf(a) ==
  [files : FileArgs, output : OutputArgs,
   diff : IF a = "reviewer" THEN BOOLEAN ELSE {FALSE}, base : {"main"}]

Environs ==
  { [set |-> FALSE, value |-> ""],
    [set |-> TRUE, value |-> ""],
    [set |-> TRUE, value |-> "sk-ant-key"] }

Absent == [exists |-> FALSE, content |-> <<>>]

GitNotRun == [rc |-> -1, stdout |-> "", stderr |-> ""]

\* `if files:` and `if args.output:`: None and the empty value are both false.
FilesTruthy == args.files.given /\ args.files.list # <<>>

OutputTruthy == args.output.given /\ args.output.path # ""

Init ==
  /\ agent \in Agents
  /\ args \in ArgsOf(agent)
  /\ anthropicInstalled \in BOOLEAN
  /\ environ \in Environs
  /\ fs \in {S \in SUBSET FsPool : Cardinality(S) <= MaxFiles}
  /\ outFile \in IF args.output.given /\ args.output.path # ""
                 THEN {Absent, [exists |-> TRUE, content |-> <<"old review">>]}
                 ELSE {Absent}
  /\ outBefore = outFile
  /\ pc = "import"
  /\ go_files = <<>>
  /\ aux_files = <<>>
  /\ code_context = <<>>
  /\ readErrors = {}
  /\ gitDiff = GitNotRun
  /\ request = <<>>
  /\ result = <<>>
  /\ stdout = <<>>
  /\ stderr = <<>>
  /\ exitCode = -1
  /\ apiCalls = 0
  /\ events = <<>>

\* n times the event e
Times(n, e) == [i \in 1..n |-> e]

\* ---------------------------------------------------------------- actions

\* try: import anthropic / except ImportError: print(...); sys.exit(1)
ImportGuard ==
  /\ pc = "import"
  /\ IF anthropicInstalled
     THEN /\ pc' = "main"
          /\ UNCHANGED <<stdout, exitCode>>
     ELSE /\ stdout' = stdout \o
               <<"Error: anthropic package not installed. Run: pip install anthropic",
                 "\n">>
          /\ exitCode' = 1
          /\ pc' = "exited"
  /\ UNCHANGED <<agent, args, anthropicInstalled, environ, fs, outFile,
                 outBefore, go_files, aux_files, code_context, readErrors,
                 gitDiff, request, result, stderr, apiCalls, events>>

RunningMessage ==
  CASE agent = "architect" -> "Running Go Architecture Review...\n"
    [] agent = "reviewer" -> "Running Go Code Review...\n"
    [] agent = "tester" -> "Generating Go Tests...\n"

\* A mutant of the credential check: the run goes on without a key.
KeyMissing_never == FALSE

\* not os.environ.get("ANTHROPIC_API_KEY")
KeyMissing == ~environ.set \/ environ.value = ""

\* main(), from parse_args to the call of run_review / run_test_generation
CheckApiKey ==
  /\ pc = "main"
  /\ IF KeyMissing
     THEN /\ stdout' = stdout \o
               <<"Error: ANTHROPIC_API_KEY environment variable not set", "\n">>
          /\ exitCode' = 1
          /\ pc' = "exited"
          /\ UNCHANGED stderr
     ELSE /\ stderr' = stderr \o <<RunningMessage, "\n">>
          /\ pc' = "run"
          /\ UNCHANGED <<stdout, exitCode>>
  /\ UNCHANGED <<agent, args, anthropicInstalled, environ, fs, outFile,
                 outBefore, go_files, aux_files, code_context, readErrors,
                 gitDiff, request, result, apiCalls, events>>

\* A mutant of the empty check: an empty selection is assembled and sent.
NoFilesReturn_never(found) == FALSE

\* if not go_files: return "No Go files found ..."
NoFilesReturn(found) == found = <<>>

\* What the selection of the files leaves: the early return or the assembly.
Selected(found, explicit, none) ==
  /\ go_files' = found
  /\ events' = IF explicit THEN events ELSE Append(events, "rglob")
  /\ IF NoFilesReturn(found)
     THEN /\ result' = <<none>>
          /\ pc' = "returned"
     ELSE /\ result' = result
          /\ pc' = "assemble"
  /\ UNCHANGED <<agent, args, anthropicInstalled, environ, fs, outFile,
                 outBefore, aux_files, code_context, readErrors, gitDiff,
                 request, stdout, stderr, exitCode, apiCalls>>

\* go_architect.run_review, "Gather code to review"
ArchitectSelect ==
  /\ pc = "run"
  /\ agent = "architect"
  /\ \E walk \in Perms(RGlob(fs, ".go")) :
       Selected(IF FilesTruthy THEN explicit_architect(args.files.list)
                ELSE find_go_files_architect(walk),
                FilesTruthy, "No Go files found to review.")

\* go_engineer_reviewer.run_review, the else branch of `if use_diff`
ReviewerSelect ==
  /\ pc = "run"
  /\ agent = "reviewer"
  /\ ~args.diff
  /\ \E walk \in Perms(RGlob(fs, ".go")) :
       Selected(IF FilesTruthy THEN explicit_reviewer(args.files.list)
                ELSE find_go_files_reviewer(walk),
                FilesTruthy, "No Go files found to review.")

\* go_tester.run_test_generation, "Gather code to test"
TesterSelect ==
  /\ pc = "run"
  /\ agent = "tester"
  /\ \E walk \in Perms(RGlob(fs, ".go")) :
       Selected(IF FilesTruthy THEN explicit_tester(args.files.list)
                ELSE find_go_files_tester(walk),
                FilesTruthy, "No Go files found to generate tests for.")

\* What an assembly leaves: the context, the reads that raised, the events.
Assembled(context, aux, bad, evs) ==
  /\ code_context' = context
  /\ aux_files' = aux
  /\ readErrors' = {p \in Range(go_files) \cup Range(aux) : Raises(p, fs, bad)}
  /\ events' = events \o evs
  /\ pc' = "dispatch"
  /\ UNCHANGED <<agent, args, anthropicInstalled, environ, fs, outFile,
                 outBefore, go_files, gitDiff, request, result, stdout,
                 stderr, exitCode, apiCalls>>

\* go_architect.run_review, "Build the code context" and "Add API specs"
ArchitectAssemble ==
  /\ pc = "assemble"
  /\ agent = "architect"
  /\ \E wy \in Perms(RGlob(fs, ".yaml")), wm \in Perms(RGlob(fs, ".yml")),
        wj \in Perms(RGlob(fs, ".json")), bad \in SUBSET fs :
       LET specs == find_api_specs(wy, wm, wj, fs)
       IN /\ bad \subseteq Range(go_files) \cup Range(specs)
          /\ Assembled(
               <<"# Code to Review\n\n">> \o ReadAll(go_files, fs, bad)
               \o (IF specs # <<>>
                   THEN <<"\n# API Specifications\n\n">>
                        \o ReadSpecs(specs, fs, bad)
                   ELSE <<>>),
               specs, bad,
               Times(Len(go_files), "open")
               \o <<"rglob", "rglob", "rglob", "exists">>
               \o Times(Len(specs), "open"))

\* go_engineer_reviewer.run_review, the context of the else branch
ReviewerAssemble ==
  /\ pc = "assemble"
  /\ agent = "reviewer"
  /\ \E bad \in SUBSET fs :
       /\ bad \subseteq Range(go_files)
       /\ Assembled(<<"# Code to Review\n\n">> \o ReadAll(go_files, fs, bad),
                    <<>>, bad, Times(Len(go_files), "open"))

\* go_tester.run_test_generation, the code context and the existing tests
TesterAssemble ==
  /\ pc = "assemble"
  /\ agent = "tester"
  /\ \E walk \in Perms(RGlob(fs, "_test.go")), bad \in SUBSET fs :
       LET existing_tests == find_test_files(walk)
       IN /\ bad \subseteq Range(go_files) \cup Range(existing_tests)
          /\ Assembled(
               <<"# Source Code to Test\n\n">> \o ReadAll(go_files, fs, bad)
               \o (IF existing_tests # <<>>
                   THEN <<"\n# Existing Tests (for reference)\n\n">>
                        \o ReadAll(existing_tests, fs, bad)
                   ELSE <<>>),
               existing_tests, bad,
               Times(Len(go_files), "open") \o <<"rglob">>
               \o Times(Len(existing_tests), "open"))

\* A mutant of the diff branch: an unusable diff is reviewed like any other.
DiffReturnsEarly_never(diff) == FALSE

\* if not diff or diff.startswith("Error"): return ...
DiffReturnsEarly(diff) == DiffUnusable(diff)

\* go_engineer_reviewer.run_review, `if use_diff:` up to the diff's context
ReviewerGitDiff ==
  /\ pc = "run"
  /\ agent = "reviewer"
  /\ args.diff
  /\ \E o \in GitDiffOutcomes :
       LET diff == get_git_diff(o)
       IN /\ gitDiff' = o
          /\ events' = Append(events, "git")
          /\ IF DiffReturnsEarly(diff)
             THEN /\ result' = <<"No changes to review or error: ">> \o diff
                  /\ pc' = "returned"
                  /\ UNCHANGED code_context
             ELSE /\ code_context' =
                       <<"# Git Diff (against ", args.base, ")\n\n", Fence,
                         "diff\n">> \o diff \o <<"\n", Fence, "\n">>
                  /\ pc' = "changed"
                  /\ UNCHANGED result
  /\ UNCHANGED <<agent, args, anthropicInstalled, environ, fs, outFile,
                 outBefore, go_files, aux_files, readErrors, request, stdout,
                 stderr, exitCode, apiCalls>>

\* for filepath in changed_files: if os.path.exists(filepath): read_file(...)
RECURSIVE ChangedEvents(_, _)
ChangedEvents(changed, disk) ==
  IF changed = <<>> THEN <<>>
  ELSE (IF Head(changed) \in disk THEN <<"exists", "open">> ELSE <<"exists">>)
       \o ChangedEvents(Tail(changed), disk)

\* go_engineer_reviewer.run_review, "Also include full files for context"
ReviewerChangedFiles ==
  /\ pc = "changed"
  /\ \E o \in NameOnlyOutcomes, bad \in SUBSET fs :
       LET changed_files == get_changed_files(o)
           existing == SelectSeq(changed_files, LAMBDA p : p \in fs)
       IN /\ bad \subseteq Range(existing)
          /\ Assembled(
               code_context
               \o (IF changed_files # <<>>
                   THEN <<"\n# Full Files (for context)\n\n">>
                        \o ReadAll(existing, fs, bad)
                   ELSE <<>>),
               existing, bad,
               <<"git">> \o ChangedEvents(changed_files, fs))

\* The user content of the request.
UserContent ==
  CASE agent = "architect" ->
         <<"Please review the following Go API code for architectural best practices:\n\n">>
         \o code_context
    [] agent = "reviewer" ->
         <<"Please conduct a thorough code review:\n\n">> \o code_context
    [] agent = "tester" ->
         <<"Please generate comprehensive tests for the following Go code:\n\n">>
         \o code_context
         \o <<"\n\nProvide complete, runnable test files.">>

\* client.messages.create(...) is called: the request leaves.
Dispatch ==
  /\ pc = "dispatch"
  /\ request' = UserContent
  /\ apiCalls' = apiCalls + 1
  /\ events' = Append(events, "request")
  /\ pc' = "awaiting"
  /\ UNCHANGED <<agent, args, anthropicInstalled, environ, fs, outFile,
                 outBefore, go_files, aux_files, code_context, readErrors,
                 gitDiff, result, stdout, stderr, exitCode>>

\* The call returns: return message.content[0].text
ServiceResponds ==
  /\ pc = "awaiting"
  /\ result' = <<"<text of the response>">>
  /\ events' = Append(events, "response")
  /\ pc' = "returned"
  /\ UNCHANGED <<agent, args, anthropicInstalled, environ, fs, outFile,
                 outBefore, go_files, aux_files, code_context, readErrors,
                 gitDiff, request, stdout, stderr, exitCode, apiCalls>>

\* A mutant of the failing call: the request is sent again (up to 3 times).
ServiceFails_retries ==
  /\ pc = "awaiting"
  /\ events' = Append(events, "exception")
  /\ IF apiCalls < 3
     THEN /\ pc' = "dispatch"
          /\ UNCHANGED <<stderr, exitCode>>
     ELSE /\ stderr' = stderr \o <<"Traceback (most recent call last): ...", "\n">>
          /\ exitCode' = 1
          /\ pc' = "exited"
  /\ UNCHANGED <<agent, args, anthropicInstalled, environ, fs, outFile,
                 outBefore, go_files, aux_files, code_context, readErrors,
                 gitDiff, request, result, stdout, apiCalls>>

\* A mutant of the failing call: the exception is caught and its text is
\* returned as the result.
ServiceFails_caught ==
  /\ pc = "awaiting"
  /\ events' = Append(events, "exception")
  /\ result' = <<"Error calling the service">>
  /\ pc' = "returned"
  /\ UNCHANGED <<agent, args, anthropicInstalled, environ, fs, outFile,
                 outBefore, go_files, aux_files, code_context, readErrors,
                 gitDiff, request, stdout, stderr, exitCode, apiCalls>>

\* The call raises (network, auth, quota): nothing catches it, the
\* interpreter prints the traceback and exits with 1.
ServiceFails ==
  /\ pc = "awaiting"
  /\ events' = Append(events, "exception")
  /\ stderr' = stderr \o <<"Traceback (most recent call last): ...", "\n">>
  /\ exitCode' = 1
  /\ pc' = "exited"
  /\ UNCHANGED <<agent, args, anthropicInstalled, environ, fs, outFile,
                 outBefore, go_files, aux_files, code_context, readErrors,
                 gitDiff, request, result, stdout, apiCalls>>

WrittenMessage ==
  IF agent = "tester" THEN "Tests written to " ELSE "Review written to "

\* A mutant of the output routing: the text is printed as well as written.
EmitStdout_always(text) == stdout \o text \o <<"\n">>

\* What main() leaves on standard output once the result is there.
EmitStdout(text) ==
  IF OutputTruthy THEN stdout ELSE stdout \o text \o <<"\n">>

\* main(), from the return of run_review / run_test_generation to its end
Emit ==
  /\ pc = "returned"
  /\ stdout' = EmitStdout(result)
  /\ IF OutputTruthy
     THEN /\ outFile' = [exists |-> TRUE, content |-> result]
          /\ stderr' = stderr \o <<WrittenMessage, args.output.path, "\n">>
          /\ events' = Append(events, "write")
     ELSE /\ events' = Append(events, "print")
          /\ UNCHANGED <<outFile, stderr>>
  /\ exitCode' = 0
  /\ pc' = "exited"
  /\ UNCHANGED <<agent, args, anthropicInstalled, environ, fs, outBefore,
                 go_files, aux_files, code_context, readErrors, gitDiff,
                 request, result, apiCalls>>

Next ==
  \/ ImportGuard
  \/ CheckApiKey
  \/ ArchitectSelect
  \/ ReviewerSelect
  \/ TesterSelect
  \/ ArchitectAssemble
  \/ ReviewerAssemble
  \/ TesterAssemble
  \/ ReviewerGitDiff
  \/ ReviewerChangedFiles
  \/ Dispatch
  \/ ServiceResponds
  \/ ServiceFails
  \/ Emit

Spec == Init /\ [][Next]_vars

\* ------------------------------------------------------------------ claims

\* run_review / run_test_generation has been entered (a configuration error
\* exits before any event).
PipelineRan ==
  \/ pc \in {"assemble", "changed", "dispatch", "awaiting", "returned"}
  \/ pc = "exited" /\ events # <<>>

\* Whether a destination path was given with --output.
DestinationGiven == args.output.given /\ args.output.path # ""

\* The text went to the sink main() chooses.
Routed(text) ==
  IF DestinationGiven THEN outFile = [exists |-> TRUE, content |-> text]
  ELSE stdout = text \o <<"\n">>

\* The paths of the "### File: " blocks of a context, in order.
RECURSIVE BlockPaths(_)
BlockPaths(ctx) ==
  IF Len(ctx) < 2 THEN <<>>
  ELSE IF Head(ctx) = "### File: "
       THEN <<ctx[2]>> \o BlockPaths(Tail(Tail(ctx)))
       ELSE BlockPaths(Tail(ctx))

\* Where a block of a context ends: at the next block or section header.
Boundaries ==
  {"### File: ", "\n# API Specifications\n\n",
   "\n# Existing Tests (for reference)\n\n", "\n# Full Files (for context)\n\n"}

BlockStarts(ctx) == {i \in 1..Len(ctx) : ctx[i] = "### File: "}

\* The k-th "### File: " block of a context.
Block(ctx, k) ==
  LET start == CHOOSE i \in BlockStarts(ctx) :
                 Cardinality({j \in BlockStarts(ctx) : j < i}) = k - 1
      later == {j \in (start + 1)..Len(ctx) : ctx[j] \in Boundaries}
      stop == IF later = {} THEN Len(ctx)
              ELSE (CHOOSE j \in later : \A l \in later : j <= l) - 1
  IN SubSeq(ctx, start, stop)

\* C1 (as amended): in diff mode, when git diff exits non-zero, run_review
\* returns "No changes to review or error: Error getting git diff: <stderr>",
\* which embeds the diagnostic output; no context is assembled, the service
\* is never called, and the text goes to the output sink with exit code 0.
C1_DiffFailureReturnsMessage ==
  (gitDiff.rc # -1 /\ gitDiff.rc # 0) =>
    /\ pc \in {"returned", "exited"}
    /\ result = <<"No changes to review or error: ", "Error getting git diff: ",
                  gitDiff.stderr>>
    /\ code_context = <<>>
    /\ request = <<>>
    /\ apiCalls = 0
    /\ pc = "exited" => exitCode = 0 /\ Routed(result)

\* C1 witness: git diff failed with a diagnostic, and it was printed.
C1_Witness ==
  /\ gitDiff.rc = 128
  /\ pc = "exited"
  /\ stdout = <<"No changes to review or error: ", "Error getting git diff: ",
                "fatal: bad revision 'main'", "\n">>

\* C1 (as stated): when git diff exits non-zero the context embeds the
\* diagnostic output and the service is still called with it.
C1_DiffFailureStillDispatches ==
  (gitDiff.rc # -1 /\ gitDiff.rc # 0 /\ pc = "exited") =>
    /\ gitDiff.stderr \in Range(code_context)
    /\ apiCalls = 1
    /\ gitDiff.stderr \in Range(request)

\* C2: with no explicit list and no entry ending in .go below the root,
\* discovery returns the empty sequence, the result is the "No Go files
\* found" message, the service is never called, and the process exits 0.
C2_NoFilesNoDispatch ==
  (~args.diff /\ ~(args.files.given /\ args.files.list # <<>>)
   /\ \A p \in fs : ~EndsWith(Chars(p), Chars(".go"))) =>
    /\ apiCalls = 0
    /\ request = <<>>
    /\ PipelineRan =>
         /\ go_files = <<>>
         /\ pc \in {"returned", "exited"}
         /\ result = <<IF agent = "tester"
                       THEN "No Go files found to generate tests for."
                       ELSE "No Go files found to review.">>
         /\ pc = "exited" => exitCode = 0 /\ Routed(result)

\* C2 witness: a directory with entries, none of them a .go file, was
\* scanned and the message was printed.
C2_Witness ==
  /\ fs = {"openapi.yaml", "Swagger.json"}
  /\ ~args.files.given
  /\ "rglob" \in Range(events)
  /\ pc = "exited"
  /\ exitCode = 0
  /\ stdout = <<"No Go files found to review.", "\n">>

\* The entries of an explicit list that an agent keeps: those ending in .go
\* and, for the tester, not holding "_test.go".
KeptIndices(list) ==
  {j \in 1..Len(list) :
     /\ EndsWith(Chars(list[j]), Chars(".go"))
     /\ agent = "tester" => ~Contains(Chars(list[j]), Chars("_test.go"))}

\* sub is the sub-sequence of full at the indices idx, in full's order.
ExactSubsequence(sub, full, idx) ==
  /\ Len(sub) = Cardinality(idx)
  /\ \E f \in [1..Len(sub) -> idx] :
       /\ \A i, j \in 1..Len(sub) : i < j => f[i] < f[j]
       /\ \A i \in 1..Len(sub) : sub[i] = full[f[i]]

\* C3 (as amended): for a non-empty explicit list, the selection is exactly
\* the sub-sequence of the entries ending in .go (for the tester: and not
\* holding "_test.go"), in the caller's order, nothing added.
C3_ExplicitSubsequence ==
  (PipelineRan /\ ~args.diff /\ args.files.given /\ args.files.list # <<>>) =>
    ExactSubsequence(go_files, args.files.list, KeptIndices(args.files.list))

\* C3 witness: the tester was given a test file before a source file and
\* kept the source file alone.
C3_Witness ==
  /\ agent = "tester"
  /\ args.files.list = <<"a_test.go", "a.go">>
  /\ go_files = <<"a.go">>
  /\ pc = "dispatch"

\* C3 (as stated): for every agent and every explicit list, the selection is
\* exactly the sub-sequence of the entries ending in .go.
C3_ExplicitAllGoEveryAgent ==
  (PipelineRan /\ ~args.diff /\ args.files.given /\ args.files.list # <<>>) =>
    ExactSubsequence(go_files, args.files.list,
                     {j \in 1..Len(args.files.list) :
                        EndsWith(Chars(args.files.list[j]), Chars(".go"))})

\* C4 (as amended): directory-mode discovery returns the entries ending in
\* .go, without those holding "_test.go" for the architect and the tester
\* (the engineer-reviewer keeps them), in lexicographic order of the path
\* strings, and the context holds their blocks in that order.
C4_DiscoverySortedPerAgent ==
  (PipelineRan /\ ~args.diff /\ ~(args.files.given /\ args.files.list # <<>>)) =>
    /\ Range(go_files) =
         {p \in fs : /\ EndsWith(Chars(p), Chars(".go"))
                     /\ agent # "reviewer" =>
                          ~Contains(Chars(p), Chars("_test.go"))}
    /\ \A i, j \in 1..Len(go_files) :
         i < j => LexLess(Chars(go_files[i]), Chars(go_files[j]))
    /\ code_context # <<>> =>
         SubSeq(BlockPaths(code_context), 1, Len(go_files)) = go_files

\* C4 witness: a.go and b.go were discovered and assembled in that order.
C4_Witness ==
  /\ fs = {"a.go", "b.go"}
  /\ ~args.files.given
  /\ go_files = <<"a.go", "b.go">>
  /\ code_context =
       <<"# Code to Review\n\n",
         "### File: ", "a.go", "\n", Fence, "go\n", "package a", "\n", Fence, "\n",
         "### File: ", "b.go", "\n", Fence, "go\n", "package b", "\n", Fence, "\n">>

\* C4 (as stated): for every agent, discovery leaves out every path holding
\* "_test.go" and returns the other .go entries in lexicographic order.
C4_DiscoveryExcludesTestsEveryAgent ==
  (PipelineRan /\ ~args.diff /\ ~(args.files.given /\ args.files.list # <<>>)) =>
    /\ Range(go_files) =
         {p \in fs : /\ EndsWith(Chars(p), Chars(".go"))
                     /\ ~Contains(Chars(p), Chars("_test.go"))}
    /\ \A i, j \in 1..Len(go_files) :
         i < j => LexLess(Chars(go_files[i]), Chars(go_files[j]))

\* C5: assembly goes through every file and does not abort (a selection that
\* is not empty always gets its context; the process ends abnormally only
\* when the service call fails): the context holds one block per file read,
\* in the order of the sequence; the block of a file whose read raised holds
\* its path and the error annotation, every other block is the path header
\* and the fenced raw content.
C5_ReadErrorsIsolated ==
  /\ (go_files # <<>> /\ pc \in {"dispatch", "awaiting", "returned", "exited"})
       => code_context # <<>>
  /\ (pc = "exited" /\ go_files # <<>> /\ exitCode # 0)
       => events[Len(events)] = "exception"
  /\ code_context # <<>> =>
    LET read == go_files \o aux_files
    IN /\ BlockPaths(code_context) = read
       /\ \A k \in 1..Len(read) :
            LET b == Block(code_context, k)
                path == read[k]
            IN IF path \in readErrors
               THEN /\ Len(b) >= 5
                    /\ SubSeq(b, 1, 3) =
                         <<"### File: ", path, "\nError reading file: ">>
                    /\ b[Len(b)] = "\n"
                    /\ Content(path) \notin Range(b)
               ELSE IF agent = "architect" /\ k > Len(go_files)
                    THEN \E tag \in {"yaml", "yml", "json"} :
                           b = <<"### File: ", path, "\n", Fence, tag, "\n",
                                 Content(path), "\n", Fence, "\n">>
                    ELSE b = <<"### File: ", path, "\n", Fence, "go\n",
                               Content(path), "\n", Fence, "\n">>

\* C5 witness: of two selected files the first could not be read, and the
\* context was assembled for the request.
C5_Witness ==
  /\ go_files = <<"a.go", "b.go">>
  /\ readErrors = {"a.go"}
  /\ pc = "dispatch"
  /\ code_context =
       <<"# Code to Review\n\n",
         "### File: ", "a.go", "\nError reading file: ",
         "[Errno 13] Permission denied: '", "a.go", "'", "\n",
         "### File: ", "b.go", "\n", Fence, "go\n", "package b", "\n", Fence, "\n">>

\* C6: without the credential the process does no file discovery, no file
\* read, no subprocess call and no request, and it exits with code 1.
C6_NoKeyNoWork ==
  (~environ.set \/ environ.value = "") =>
    /\ events = <<>>
    /\ apiCalls = 0
    /\ request = <<>>
    /\ go_files = <<>>
    /\ code_context = <<>>
    /\ gitDiff = GitNotRun
    /\ outFile = outBefore
    /\ pc \in {"import", "main", "exited"}
    /\ pc = "exited" => exitCode = 1

\* C6 witness: the library is there, the key is not, files and a list were
\* there to work on, and the process exited with 1.
C6_Witness ==
  /\ anthropicInstalled
  /\ ~environ.set
  /\ fs = {"a.go", "b.go"}
  /\ args.files.list = <<"a.go">>
  /\ pc = "exited"
  /\ exitCode = 1

\* C7: a configuration error (missing credential or missing client library)
\* is reported on standard error, not on standard output, and the process
\* exits non-zero before doing any work.
C7_ConfigErrorOnStderr ==
  (pc = "exited" /\ (~anthropicInstalled \/ ~environ.set \/ environ.value = "")) =>
    /\ exitCode # 0
    /\ events = <<>>
    /\ stdout = <<>>
    /\ stderr # <<>>

GatherEvents == {"rglob", "git", "exists", "open"}

\* C8: the service is requested at most once, the request leaves only after
\* all gathering (directory walks, git subprocesses, file reads), and no
\* result reaches standard output or the output file before the request has
\* returned.
C8_SingleLinearPass ==
  /\ apiCalls <= 1
  /\ Cardinality({i \in 1..Len(events) : events[i] = "request"}) = apiCalls
  /\ \A i, j \in 1..Len(events) :
       (events[i] = "request" /\ events[j] \in GatherEvents) => j < i
  /\ \A j \in 1..Len(events) :
       events[j] \in {"write", "print"} =>
         /\ j = Len(events)
         /\ \A i \in 1..Len(events) :
              events[i] = "request" =>
                \E k \in 1..Len(events) :
                  i < k /\ k < j /\ events[k] = "response"
  /\ (outFile # outBefore \/ (stdout # <<>> /\ exitCode = 0)) =>
       /\ pc = "exited"
       /\ events[Len(events)] \in {"write", "print"}
  /\ pc \in {"dispatch", "awaiting"} => request \in {<<>>, UserContent}

\* C8 witness: two files were read, the request left, the response came,
\* and the result was written.
C8_Witness ==
  /\ events = <<"open", "open", "request", "response", "write">>
  /\ pc = "exited"
  /\ outFile.content = <<"<text of the response>">>

\* C9: the result goes to exactly one sink.  With a destination path it is
\* written to that path in place of what was there, nothing is printed to
\* standard output, and one confirmation line naming the path goes to
\* standard error; without one it is printed to standard output and no file
\* is written.
C9_OneSink ==
  /\ pc # "exited" => outFile = outBefore
  /\ (pc = "exited" /\ exitCode = 0) =>
       IF args.output.given /\ args.output.path # ""
       THEN /\ outFile = [exists |-> TRUE, content |-> result]
            /\ stdout = <<>>
            /\ stderr =
                 <<RunningMessage, "\n",
                   IF agent = "tester" THEN "Tests written to "
                   ELSE "Review written to ",
                   args.output.path, "\n">>
       ELSE /\ stdout = result \o <<"\n">>
            /\ outFile = outBefore
            /\ ~outFile.exists
            /\ stderr = <<RunningMessage, "\n">>

\* C9 witness: a review replaced the old content of review.md.
C9_Witness ==
  /\ pc = "exited"
  /\ exitCode = 0
  /\ args.output.path = "review.md"
  /\ outBefore = [exists |-> TRUE, content |-> <<"old review">>]
  /\ outFile = [exists |-> TRUE, content |-> <<"<text of the response>">>]

\* C10: when the call to the service fails, the failure ends the process:
\* the call was made once and is not made again, nothing is printed to
\* standard output, and the file named by --output is as it was before.
C10_ServiceFailurePropagates ==
  "exception" \in Range(events) =>
    /\ pc = "exited"
    /\ exitCode # 0
    /\ apiCalls = 1
    /\ events[Len(events)] = "exception"
    /\ stdout = <<>>
    /\ outFile = outBefore
    /\ ~ENABLED Next

\* C10 witness: the call failed with --output naming an existing file.
C10_Witness ==
  /\ "exception" \in Range(events)
  /\ args.output.path = "review.md"
  /\ outBefore.exists
  /\ pc = "exited"

====
